---- MODULE Spec2Model ----
(***************************************************************************)
(* Model of src/aplikasi/aplikasi.py (class SLRCryptoApp): the menu loop   *)
(* `run`, the credential hashing function `hash_password`, the rainbow     *)
(* table simulation `simulate_rainbow_table_attack` and the avalanche      *)
(* demonstration `demonstrate_avalanche_effect`.                           *)
(*                                                                         *)
(* Python str values are sequences of one-character strings.  An optional  *)
(* value (salt) is a record [tag, val]; tag "None" is Python's None.       *)
(* A hashlib digest is a symbolic term [fn, data]: two digests are equal   *)
(* exactly when the same function was applied to the same bytes (the       *)
(* collision-free idealisation of SHA-256, SHA-512, SHA3-512 and BLAKE2b). *)
(***************************************************************************)
EXTENDS Integers, Sequences, FiniteSets, TLC

\* ------------------------------------------------------------------ bounds
\* bytes requested from secrets.token_hex (the code's default is 16)
SaltBytes == 2
\* how many of the sixteen hexadecimal digits the random sources draw from
NumHex == 3
\* hex characters in a rendered SHA3-512 digest (128 in hashlib)
DigestLen == 3

\* ------------------------------------------------------------ text values
HexDigits == <<"0","1","2","3","4","5","6","7","8","9","a","b","c","d","e","f">>

\* the ASCII digits (from code point 48), capitals (from 65) and small
\* letters (from 97), each in code point order
Digits == <<"0","1","2","3","4","5","6","7","8","9">>
Capitals ==
  <<"A","B","C","D","E","F","G","H","I","J","K","L","M","N","O","P","Q",
    "R","S","T","U","V","W","X","Y","Z">>
Smalls ==
  <<"a","b","c","d","e","f","g","h","i","j","k","l","m","n","o","p","q",
    "r","s","t","u","v","w","x","y","z">>

IndexOf(seq, c) == CHOOSE i \in 1..Len(seq) : seq[i] = c

\* code point of a character
ord(c) ==
  IF \E i \in 1..Len(Digits) : Digits[i] = c THEN 47 + IndexOf(Digits, c)
  ELSE IF \E i \in 1..Len(Capitals) : Capitals[i] = c
       THEN 64 + IndexOf(Capitals, c)
       ELSE 96 + IndexOf(Smalls, c)

\* str.encode('utf-8') for ASCII text: one byte per character
encode(s) == [i \in 1..Len(s) |-> ord(s[i])]

None == [tag |-> "None", val |-> <<>>]
Str(s) == [tag |-> "str", val |-> s]

\* Python truthiness of an optional str: None and '' are falsy
truthy(v) == v.tag = "str" /\ Len(v.val) > 0

\* ------------------------------------------------------------ hashlib
sha256(data) == [fn |-> "sha256", data |-> data]
sha512(data) == [fn |-> "sha512", data |-> data]
sha3_512(data) == [fn |-> "sha3_512", data |-> data]
blake2b(data) == [fn |-> "blake2b", data |-> data]

\* self.algorithms: display name -> hashlib constructor
AlgorithmNames == {"SHA-256", "SHA-512", "SHA-3-512", "Blake2b"}

algorithms(name, data) ==
  CASE name = "SHA-256" -> sha256(data)
    [] name = "SHA-512" -> sha512(data)
    [] name = "SHA-3-512" -> sha3_512(data)
    [] name = "Blake2b" -> blake2b(data)

\* secrets.token_hex(length): 2*length hexadecimal characters
RECURSIVE HexStrings(_)
HexStrings(n) ==
  IF n = 0 THEN {<<>>}
  ELSE {<<HexDigits[d]>> \o s : d \in 1..NumHex, s \in HexStrings(n - 1)}

generate_salt(length) == HexStrings(2 * length)

\* the hash_password result: never an exception, always a digest
hash_password(password, algo_type, salt) ==
  LET data == IF truthy(salt) THEN encode(password \o salt.val)
              ELSE encode(password)
  IN  IF algo_type = "blake2" THEN blake2b(data)
      ELSE IF algo_type = "sha3" THEN sha3_512(data)
      ELSE sha256(data)

\* a digest slot that holds no digest
NoDigest == [fn |-> "none", data |-> <<>>]

\* Python's binding of the keyword arguments of a call
\* hash_password(pwd, **kwargs) to the signature
\* (password, algo_type='sha3', salt=None): an unexpected keyword, or a
\* second value for `password`, raises TypeError before the body runs
Bind(kwargs) ==
  IF DOMAIN kwargs \subseteq {"algo_type", "salt"}
  THEN [ok |-> TRUE,
        algo_type |-> IF "algo_type" \in DOMAIN kwargs
                      THEN kwargs.algo_type ELSE "sha3",
        salt |-> IF "salt" \in DOMAIN kwargs THEN kwargs.salt ELSE None]
  ELSE [ok |-> FALSE, algo_type |-> "unbound", salt |-> None]

\* ------------------------------------------------- the rainbow table demo
UserIds == {"user_lemah", "user_aman"}

\* the password both users register with
EnrolledPassword == <<"1","2","3","4","5","6">>

common_passwords ==
  << <<"1","2","3","4","5","6">>,
     <<"p","a","s","s","w","o","r","d">>,
     <<"a","d","m","i","n">>,
     <<"r","a","h","a","s","i","a">> >>

\* an assignment that rebinds the whole dict to the one new item
SetItem_replacesDict(d, k, v) == [u \in {k} |-> v]

\* dict item assignment d[k] = v
SetItem(d, k, v) == [u \in DOMAIN d \cup {k} |-> IF u = k THEN v ELSE d[u]]

\* self.user_database['user_lemah'] = {...}
EnrollLemah(db) ==
  SetItem(db, "user_lemah",
          [hash |-> hash_password(EnrolledPassword, "sha256", None),
           salt |-> None,
           algo |-> "sha256"])

\* the salted registration with the digest computed from the password alone
EnrollAman_hashWithoutSalt(db, s) ==
  SetItem(db, "user_aman",
          [hash |-> hash_password(EnrolledPassword, "sha3", None),
           salt |-> s,
           algo |-> "sha3"])

\* self.user_database['user_aman'] = {...}, s the salt just generated
EnrollAman(db, s) ==
  SetItem(db, "user_aman",
          [hash |-> hash_password(EnrolledPassword, "sha3", s),
           salt |-> s,
           algo |-> "sha3"])

\* the keyword arguments written at the two call sites of the attack loops
AttackKwargs(t, db) ==
  IF t = "user_lemah"
  THEN [algo |-> "sha256", salt |-> None]
  ELSE [algo |-> "sha3", salt |-> db["user_aman"].salt]

NoReport == [printed |-> FALSE, found |-> FALSE, password |-> <<>>]
NoCall == [issued |-> FALSE, target |-> "none", bound |-> FALSE,
           algo_type |-> "unbound", salt |-> None]

\* ------------------------------------------------------------------ state
VARIABLES
  pc,             \* position of the process in run() and the handler it called
  choice,         \* run: the last menu input
  user_database,  \* self.user_database
  salt,           \* local `salt` of the running handler
  target,         \* which of the two attack loops is running
  i,              \* position of `pwd` in common_passwords
  found,          \* local `found`
  hashed,         \* per target: hash_password calls that returned a digest
  last_call,      \* the most recent hash_password call of an attack loop
  report,         \* per target: the verdict line printed
  error,          \* the exception that ended run(), if any
  h_pc, h_password, h_algo, h_salt, h_result,
  a_pc, text1, text2, sha3_hex, hash1, hash2, diff_count, total_chars,
  percentage

menuVars == <<pc, choice, user_database, salt, target, i, found, hashed,
              last_call, report, error>>
hashVars == <<h_pc, h_password, h_algo, h_salt, h_result>>
avalancheVars == <<a_pc, text1, text2, sha3_hex, hash1, hash2, diff_count,
                   total_chars, percentage>>
vars == <<menuVars, hashVars, avalancheVars>>

EmptyDict == [u \in {} |-> None]

Choices == {"1", "2", "3", "4", "5", "6", "x"}

MenuInit ==
  /\ pc = "menu"
  /\ choice = ""
  /\ user_database = EmptyDict
  /\ salt = None
  /\ target = "none"
  /\ i = 0
  /\ found = FALSE
  /\ hashed = [u \in UserIds |-> 0]
  /\ last_call = NoCall
  /\ report = [u \in UserIds |-> NoReport]
  /\ error = "none"

HashIdle ==
  /\ h_pc = "idle"
  /\ h_password = <<>>
  /\ h_algo = ""
  /\ h_salt = None
  /\ h_result = NoDigest

AvalancheIdle ==
  /\ a_pc = "idle"
  /\ text1 = <<>>
  /\ text2 = <<>>
  /\ sha3_hex = EmptyDict
  /\ hash1 = <<>>
  /\ hash2 = <<>>
  /\ diff_count = 0
  /\ total_chars = 0
  /\ percentage = [num |-> 0, den |-> 1]

Init == MenuInit /\ HashIdle /\ AvalancheIdle

\* ------------------------------------------------------------------- run
\* choice = input(...) and the if/elif chain
Menu ==
  /\ pc = "menu"
  /\ \E c \in Choices :
       /\ choice' = c
       /\ pc' = CASE c = "1" -> "run_performance_test"
                  [] c = "2" -> "demonstrate_avalanche_effect"
                  [] c = "3" -> "simulate_integrity_check"
                  [] c = "4" -> "enroll_lemah"
                  [] c = "5" -> "study_blake2"
                  [] c = "6" -> "done"
                  [] OTHER -> "pause"
  /\ UNCHANGED <<user_database, salt, target, i, found, hashed, last_call,
                 report, error>>
  /\ UNCHANGED <<hashVars, avalancheVars>>

\* handlers 1, 2 and 3 print and touch no attribute of the application
PrintOnly ==
  /\ pc \in {"run_performance_test", "demonstrate_avalanche_effect",
             "simulate_integrity_check"}
  /\ pc' = "pause"
  /\ UNCHANGED <<choice, user_database, salt, target, i, found, hashed,
                 last_call, report, error>>
  /\ UNCHANGED <<hashVars, avalancheVars>>

\* input("Tekan ENTER ...") at the end of an iteration
Pause ==
  /\ pc = "pause"
  /\ pc' = "menu"
  /\ UNCHANGED <<choice, user_database, salt, target, i, found, hashed,
                 last_call, report, error>>
  /\ UNCHANGED <<hashVars, avalancheVars>>

\* --------------------------------------- simulate_rainbow_table_attack
\* registration of user_lemah (no salt)
RegisterLemah ==
  /\ pc = "enroll_lemah"
  /\ user_database' = EnrollLemah(user_database)
  /\ hashed' = [u \in UserIds |-> 0]
  /\ last_call' = NoCall
  /\ report' = [u \in UserIds |-> NoReport]
  /\ pc' = "generate_salt"
  /\ UNCHANGED <<choice, salt, target, i, found, error>>
  /\ UNCHANGED <<hashVars, avalancheVars>>

\* salt = self.generate_salt()
GenerateSalt ==
  /\ pc = "generate_salt"
  /\ \E s \in generate_salt(SaltBytes) : salt' = Str(s)
  /\ pc' = "enroll_aman"
  /\ UNCHANGED <<choice, user_database, target, i, found, hashed, last_call,
                 report, error>>
  /\ UNCHANGED <<hashVars, avalancheVars>>

\* registration of user_aman (salted), then entry into the first loop
RegisterAman ==
  /\ pc = "enroll_aman"
  /\ user_database' = EnrollAman(user_database, salt)
  /\ target' = "user_lemah"
  /\ found' = FALSE
  /\ i' = 1
  /\ pc' = "attack"
  /\ UNCHANGED <<choice, salt, hashed, last_call, report, error>>
  /\ UNCHANGED <<hashVars, avalancheVars>>

\* what follows the loop over common_passwords for target t
AfterLoop(t) ==
  IF t = "user_lemah"
  THEN /\ target' = "user_aman"
       /\ found' = FALSE
       /\ i' = 1
       /\ pc' = "attack"
       /\ salt' = salt
  ELSE /\ target' = "none"
       /\ found' = FALSE
       /\ i' = 0
       /\ pc' = "pause"
       /\ salt' = None

\* one iteration of `for pwd in common_passwords` for the current target,
\* or the `if not found` report once the list is exhausted
AttackStep ==
  /\ pc = "attack"
  /\ LET kwargs == AttackKwargs(target, user_database)
         b == Bind(kwargs)
     IN  IF i > Len(common_passwords)
         THEN /\ report' = [report EXCEPT ![target] =
                              [printed |-> TRUE, found |-> FALSE,
                               password |-> <<>>]]
              /\ AfterLoop(target)
              /\ UNCHANGED <<hashed, last_call, error>>
         ELSE IF ~b.ok
         THEN /\ last_call' = [issued |-> TRUE, target |-> target,
                               bound |-> FALSE, algo_type |-> b.algo_type,
                               salt |-> b.salt]
              /\ error' = "TypeError"
              /\ pc' = "crashed"
              /\ UNCHANGED <<salt, target, i, found, hashed, report>>
         ELSE /\ last_call' = [issued |-> TRUE, target |-> target,
                               bound |-> TRUE, algo_type |-> b.algo_type,
                               salt |-> b.salt]
              /\ hashed' = [hashed EXCEPT ![target] = @ + 1]
              /\ error' = error
              /\ IF hash_password(common_passwords[i], b.algo_type, b.salt)
                      = user_database[target].hash
                 THEN /\ report' = [report EXCEPT ![target] =
                                      [printed |-> TRUE, found |-> TRUE,
                                       password |-> common_passwords[i]]]
                      /\ AfterLoop(target)
                 ELSE /\ i' = i + 1
                      /\ UNCHANGED <<salt, target, found, report, pc>>
  /\ UNCHANGED <<choice, user_database>>
  /\ UNCHANGED <<hashVars, avalancheVars>>

\* ------------------------------------------------- run_comparative_study
\* salt = self.generate_salt() and the loop of hash_password(.., 'blake2', salt)
StudyBlake2 ==
  /\ pc = "study_blake2"
  /\ \E s \in generate_salt(SaltBytes) : salt' = Str(s)
  /\ pc' = "study_sha3"
  /\ UNCHANGED <<choice, user_database, target, i, found, hashed, last_call,
                 report, error>>
  /\ UNCHANGED <<hashVars, avalancheVars>>

\* the second salt and the loop of hash_password(.., 'sha3', salt)
StudySha3 ==
  /\ pc = "study_sha3"
  /\ \E s \in generate_salt(SaltBytes) : salt' = Str(s)
  /\ pc' = "study_report"
  /\ UNCHANGED <<choice, user_database, target, i, found, hashed, last_call,
                 report, error>>
  /\ UNCHANGED <<hashVars, avalancheVars>>

\* the prints and the return
StudyReport ==
  /\ pc = "study_report"
  /\ salt' = None
  /\ pc' = "pause"
  /\ UNCHANGED <<choice, user_database, target, i, found, hashed, last_call,
                 report, error>>
  /\ UNCHANGED <<hashVars, avalancheVars>>

Next ==
  \/ Menu
  \/ PrintOnly
  \/ Pause
  \/ RegisterLemah
  \/ GenerateSalt
  \/ RegisterAman
  \/ AttackStep
  \/ StudyBlake2
  \/ StudySha3
  \/ StudyReport

Spec == Init /\ [][Next]_vars

\* ------------------------------------------- hash_password as a function
\* the arguments hash_password is applied to
HashPasswords == {EnrolledPassword, <<"a","d","m","i","n">>, <<>>}
HashAlgoTypes == AlgorithmNames \cup {"blake2", "sha3", "sha256", "md5"}
HashSalts == {None, Str(<<>>)} \cup {Str(s) : s \in generate_salt(SaltBytes)}

HashInit ==
  /\ h_pc = "ready"
  /\ h_password \in HashPasswords
  /\ h_algo \in HashAlgoTypes
  /\ h_salt \in HashSalts
  /\ h_result = [raised |-> "none", value |-> NoDigest]

\* a call hash_password(h_password, h_algo, h_salt); the body has no raise
HashCall ==
  /\ h_pc = "ready"
  /\ h_result' = [raised |-> "none",
                  value |-> hash_password(h_password, h_algo, h_salt)]
  /\ h_pc' = "returned"
  /\ UNCHANGED <<h_password, h_algo, h_salt>>
  /\ UNCHANGED <<menuVars, avalancheVars>>

InitHash == MenuInit /\ HashInit /\ AvalancheIdle

SpecHash == InitHash /\ [][HashCall]_vars

\* -------------------------------------------- demonstrate_avalanche_effect
Password123 == <<"P","a","s","s","w","o","r","d","1","2","3">>
password123 == <<"p","a","s","s","w","o","r","d","1","2","3">>
Texts == {Password123, password123}

Min(a, b) == IF a < b THEN a ELSE b

\* zip(hash1, hash2): pairs up to the shorter length
zip(a, b) == [k \in 1..Min(Len(a), Len(b)) |-> <<a[k], b[k]>>]

RECURSIVE SumDiff(_)
\* sum(1 for a, b in pairs if a != b)
SumDiff(pairs) ==
  IF Len(pairs) = 0 THEN 0
  ELSE (IF pairs[1][1] # pairs[1][2] THEN 1 ELSE 0)
       + SumDiff(SubSeq(pairs, 2, Len(pairs)))

RECURSIVE SumSame(_)
SumSame(pairs) ==
  IF Len(pairs) = 0 THEN 0
  ELSE (IF pairs[1][1] = pairs[1][2] THEN 1 ELSE 0)
       + SumSame(SubSeq(pairs, 2, Len(pairs)))

\* the comparison with == in place of !=
CountDiff_countsEqual(h1, h2) == SumSame(zip(h1, h2))

\* diff_count
CountDiff(h1, h2) == SumDiff(zip(h1, h2))

\* (diff_count / total_chars) * 100 as an exact fraction; with hashlib's
\* 128 characters the float computation is exact as well
Percentage(diff, total) == [num |-> diff * 100, den |-> total]

AvalancheInit ==
  /\ a_pc = "ready"
  /\ text1 \in Texts
  /\ text2 \in Texts
  /\ sha3_hex \in [{sha3_512(encode(t)) : t \in Texts} -> HexStrings(DigestLen)]
  /\ hash1 = <<>>
  /\ hash2 = <<>>
  /\ diff_count = 0
  /\ total_chars = 0
  /\ percentage = [num |-> 0, den |-> 1]

\* demonstrate_avalanche_effect(text1, text2); sha3_hex is the hexadecimal
\* rendering (.hexdigest()) of each SHA3-512 digest
Demonstrate ==
  /\ a_pc = "ready"
  /\ hash1' = sha3_hex[sha3_512(encode(text1))]
  /\ hash2' = sha3_hex[sha3_512(encode(text2))]
  /\ diff_count' = CountDiff(hash1', hash2')
  /\ total_chars' = Len(hash1')
  /\ percentage' = Percentage(diff_count', total_chars')
  /\ a_pc' = "shown"
  /\ UNCHANGED <<text1, text2, sha3_hex>>
  /\ UNCHANGED <<menuVars, hashVars>>

InitAvalanche == MenuInit /\ HashIdle /\ AvalancheInit

SpecAvalanche == InitAvalanche /\ [][Demonstrate]_vars

\* ================================================================ claims
\* the loop over common_passwords for target t is over: its verdict line
\* was printed, or the handler was left by an exception while scanning t
AttackOver(t) == report[t].printed \/ (pc = "crashed" /\ target = t)

\* position of the earliest dictionary entry whose hash under the stored
\* parameters of t equals the stored digest (0 when there is none)
FirstMatch(t) ==
  LET hits == {k \in 1..Len(common_passwords) :
                 hash_password(common_passwords[k], user_database[t].algo,
                               user_database[t].salt)
                   = user_database[t].hash}
  IN  IF hits = {} THEN 0 ELSE CHOOSE k \in hits : \A m \in hits : k <= m

\* C1: once the attack on a credential enrolled from password P is over, it
\* has reported found exactly when the dictionary contains P, and then with
\* P as the matched password (here P = "123456", first in the dictionary).
C1_AttackFindsEnrolledPassword ==
  \A t \in UserIds :
    AttackOver(t) =>
      LET inDict == \E k \in 1..Len(common_passwords) :
                       common_passwords[k] = EnrolledPassword
      IN  /\ report[t].printed
          /\ report[t].found = inDict
          /\ inDict => report[t].password = EnrolledPassword

\* C2: a hash_password call whose algorithm identifier is not one of the
\* four registered names ends with UnknownAlgorithm and yields no digest.
C2_UnknownAlgorithmRaises ==
  (h_pc = "returned" /\ h_algo \notin AlgorithmNames) =>
    (h_result.raised = "UnknownAlgorithm" /\ h_result.value = NoDigest)

\* C3: for each of the four registered names, hash_password returns the
\* registry's digest function of that name applied to the password bytes
\* followed by the salt bytes (the password bytes alone without a salt).
C3_HashUsesRegistry ==
  (h_pc = "returned" /\ h_algo \in AlgorithmNames) =>
    LET material == encode(h_password) \o
                    (IF h_salt.tag = "str" THEN encode(h_salt.val) ELSE <<>>)
    IN  /\ h_result.raised = "none"
        /\ h_result.value = algorithms(h_algo, material)

\* C4: every stored credential's digest is hash_password of the enrolment
\* password under the salt and algorithm stored with it; user_lemah stores
\* no salt and user_aman stores the one salt generated for its enrolment.
C4_StoredDigestMatchesParameters ==
  \A u \in DOMAIN user_database :
    /\ user_database[u].hash =
         hash_password(EnrolledPassword, user_database[u].algo,
                       user_database[u].salt)
    /\ u = "user_lemah" => user_database[u].salt = None
    /\ u = "user_aman" =>
         (user_database[u].salt = salt /\ salt.val \in generate_salt(SaltBytes))

C4_Witness ==
  /\ DOMAIN user_database = UserIds
  /\ user_database["user_aman"].salt.tag = "str"
  /\ user_database["user_lemah"].hash # user_database["user_aman"].hash

C6_AvalanchePercentage ==
  a_pc = "shown" =>
    /\ Len(hash1) = Len(hash2)
    /\ percentage.den > 0
    /\ 0 <= percentage.num
    /\ percentage.num <= 100 * percentage.den
    /\ percentage.num * Len(hash1) =
         100 * Cardinality({k \in 1..Len(hash1) : hash1[k] # hash2[k]})
             * percentage.den
    /\ text1 = text2 => percentage.num = 0

C6_Witness ==
  /\ a_pc = "shown"
  /\ text1 # text2
  /\ 0 < percentage.num
  /\ percentage.num < 100 * percentage.den

\* C7: when the attack on a target is over, the password reported is the
\* earliest dictionary entry reproducing the stored digest, and the entries
\* hashed are exactly those up to and including it.
C7_FirstMatchWins ==
  \A t \in UserIds :
    (AttackOver(t) /\ t \in DOMAIN user_database /\ FirstMatch(t) > 0) =>
      /\ report[t].found
      /\ report[t].password = common_passwords[FirstMatch(t)]
      /\ hashed[t] = FirstMatch(t)

C9_AttackTerminatesWithVerdict ==
  /\ pc # "crashed"
  /\ error = "none"
  /\ \A t \in UserIds :
       /\ hashed[t] <= Len(common_passwords)
       /\ AttackOver(t) => report[t].printed

\* C10: only choice 4 changes the store, its keys stay within
\* {user_lemah, user_aman}, and run() ends only on choice 6.
C10_MenuFrame ==
  /\ [][user_database' # user_database => choice = "4"]_vars
  /\ [](DOMAIN user_database \subseteq UserIds)
  /\ [](pc \in {"done", "crashed"} => choice = "6")

====
